---- MODULE Spec2Model ----
(***************************************************************************)
(* Model of os::windows::named_pipe (source/os/windows/named-pipe.cpp):    *)
(* the three constructors, the destructor, available / total_available and *)
(* the overlapped read / write submission, together with the part of the   *)
(* Win32 pipe namespace and of os::windows::async_request they act on.     *)
(*                                                                         *)
(* Spec   : processes constructing and destroying endpoints on one name.   *)
(* SpecIO : one constructed endpoint, its peer, and the I/O calls.         *)
(***************************************************************************)
EXTENDS Integers, Sequences, FiniteSets, TLC

(* ---------------------------- bounds ---------------------------------- *)
NumProcs == 2
MaxMsgs == 2
MaxMsgLen == 2
MaxBufLen == 2
MaxNameLen == 3
MaxNormalizations == 2

(* ----------------------- program constants ---------------------------- *)
MAX_PATH == 260
PIPE_UNLIMITED_INSTANCES == 255
MAX_PATH_MINUS_PREFIX == MAX_PATH - 9
NULL == 0
INVALID_HANDLE_VALUE == 0 - 1

Procs == 1..NumProcs
HandleIds == 1..(2 * NumProcs)
HandleVals == {NULL, INVALID_HANDLE_VALUE} \cup HandleIds
Slots == {"r1", "r2"}

(* inputs the callers are drawn from *)
NameLens == {0, MAX_PATH_MINUS_PREFIX - 1, MAX_PATH_MINUS_PREFIX, MAX_PATH_MINUS_PREFIX + 1}
MaxInstInputs == {0, 1, 2, PIPE_UNLIMITED_INSTANCES + 1}
\* (name length, max_instances) pairs passed to the creating constructors:
\* every length with a valid count, every count with a valid length, both invalid
CreateInputs ==
    {a \in NameLens \X MaxInstInputs :
        \/ a[1] = MAX_PATH_MINUS_PREFIX - 1
        \/ a[2] = 1
        \/ (a[1] = 0 /\ a[2] = 0)}
BufLens == 1..MaxBufLen

VARIABLES
    pc,        \* per process: "start", "open" (between create_logic and open_logic), "done", "failed", "destroyed"
    ctor,      \* per process: the constructor called and its arguments
    handle,    \* per process: named_pipe::handle
    thrown,    \* per process: the exception that left the constructor
    native,    \* per process: what the native create / open calls returned
    kernel,    \* OS handle table: "unused", "server", "client", "closed"
    teardown,  \* per process: the native calls its destructor made, in order
    request,   \* the caller's std::unique_ptr<async_request> variables
    last,      \* the last available / total_available / read / write call and its result
    peer,      \* the other end of the pipe: "connected" or "gone"
    inbox,     \* bytes left in each message buffered for reading, oldest first
    avail,     \* the caller's size_t passed to available / total_available
    allocated, \* number of async_request objects read / write have created
    name,      \* a pipe name as the caller writes it, a sequence of characters
    normalized \* the results of successive make_windows_compatible calls, starting from name

vars == <<pc, ctor, handle, thrown, native, kernel, teardown, request, last, peer, inbox, avail, allocated, name, normalized>>
lifeVars == <<pc, ctor, handle, thrown, native, kernel, teardown>>
ioVars == <<request, last, peer, inbox, avail, allocated>>
nameVars == <<name, normalized>>

NoCall == [called |-> FALSE, h |-> NULL, status |-> "ERROR_SUCCESS"]
NoThrow == [kind |-> "none", what |-> "none", code |-> "ERROR_SUCCESS"]
NoCtor == [mode |-> "none", len |-> 0, max_instances |-> 0, is_unique |-> FALSE]
NoRequest == [present |-> FALSE, handle |-> NULL, valid |-> FALSE, op |-> "none"]
NoLast == [op |-> "none", slot |-> "r1", ok |-> TRUE, status |-> "ERROR_SUCCESS",
           ret |-> "none", cancelled |-> FALSE, fresh |-> FALSE, valid |-> FALSE,
           wasValid |-> FALSE, gone |-> FALSE, left |-> 0, total |-> 0]

(* ------------------------- argument validation ------------------------ *)
\* validate_create_param without the test for a zero instance count
validate_create_param_zero_allowed(len, max_instances) ==
    IF len = 0 THEN "name_empty"
    ELSE IF len >= MAX_PATH_MINUS_PREFIX THEN "name_too_long"
    ELSE IF max_instances > PIPE_UNLIMITED_INSTANCES THEN "max_instances_too_big"
    ELSE "ok"

\* validate_create_param: "ok" or the std::invalid_argument it throws
validate_create_param(len, max_instances) ==
    IF len = 0 THEN "name_empty"
    ELSE IF len >= MAX_PATH_MINUS_PREFIX THEN "name_too_long"
    ELSE IF max_instances = 0 THEN "max_instances_zero"
    ELSE IF max_instances > PIPE_UNLIMITED_INSTANCES THEN "max_instances_too_big"
    ELSE "ok"

\* validate_open_param
validate_open_param(len) ==
    IF len = 0 THEN "name_empty"
    ELSE IF len >= MAX_PATH_MINUS_PREFIX THEN "name_too_long"
    ELSE "ok"

(* --------------------------- name normalization ----------------------- *)
NameChars == {"a", "/", "\\"}
Names == UNION {[1..n -> NameChars] : n \in 1..MaxNameLen}

\* the literal "\\\\.\\pipe\\" of line 63
Prefix == <<"\\", "\\", ".", "\\", "p", "i", "p", "e", "\\">>

\* the loop of lines 58-62
Slashed(n) == [i \in 1..Len(n) |-> IF n[i] = "\\" THEN "/" ELSE n[i]]

StartsWithPrefix(n) == Len(n) >= Len(Prefix) /\ SubSeq(n, 1, Len(Prefix)) = Prefix

\* a normalization that leaves an already prefixed name alone
make_windows_compatible_once(n) ==
    IF StartsWithPrefix(n) THEN n ELSE Prefix \o Slashed(n)

\* make_windows_compatible
make_windows_compatible(n) == Prefix \o Slashed(n)

\* one more call of make_windows_compatible, on the previous result
Normalize ==
    /\ Len(normalized) < MaxNormalizations
    /\ normalized' = Append(normalized,
                            make_windows_compatible(IF normalized = <<>> THEN name
                                                    ELSE normalized[Len(normalized)]))
    /\ UNCHANGED <<lifeVars, ioVars, name>>

(* --------------------------- the OS namespace ------------------------- *)
Instances == {h \in HandleIds : kernel[h] = "server"}
Clients == {h \in HandleIds : kernel[h] = "client"}
OpenHandles == Instances \cup Clients
Unused == {h \in HandleIds : kernel[h] = "unused"}
NewHandle == CHOOSE h \in Unused : \A g \in Unused : h <= g

\* CreateNamedPipeW followed by GetLastError: the (handle, last-error) pairs
\* the OS can hand back for these arguments in the current namespace.
\* FILE_FLAG_FIRST_PIPE_INSTANCE refuses a second instance with
\* ERROR_ACCESS_DENIED; a full pipe refuses with ERROR_PIPE_BUSY; on failure
\* the handle is INVALID_HANDLE_VALUE.  The last-error value after a call
\* that returned a handle is not fixed by the API, and the guard of
\* create_logic tests it separately from the handle.
CreateNamedPipeW(max_instances, is_unique) ==
    LET canCreate == /\ ~(is_unique /\ Instances # {})
                     /\ Cardinality(Instances) < max_instances
                     /\ Unused # {}
    IN  (IF canCreate
           THEN {[h |-> NewHandle, status |-> s] :
                    s \in {"ERROR_SUCCESS", "ERROR_NOT_ENOUGH_MEMORY"}}
           ELSE {})
        \cup (IF is_unique /\ Instances # {}
                THEN {[h |-> INVALID_HANDLE_VALUE, status |-> "ERROR_ACCESS_DENIED"]}
                ELSE IF Cardinality(Instances) >= max_instances
                THEN {[h |-> INVALID_HANDLE_VALUE, status |-> "ERROR_PIPE_BUSY"]}
                ELSE {})
        \cup {[h |-> INVALID_HANDLE_VALUE, status |-> "ERROR_NOT_ENOUGH_MEMORY"],
              [h |-> NULL, status |-> "ERROR_SUCCESS"]}

\* CreateFileW(OPEN_EXISTING) followed by GetLastError: connects to a server
\* instance that has no client yet.
CreateFileW ==
    LET canOpen == Cardinality(Instances) > Cardinality(Clients) /\ Unused # {}
    IN  (IF canOpen
           THEN {[h |-> NewHandle, status |-> s] :
                    s \in {"ERROR_SUCCESS", "ERROR_NOT_ENOUGH_MEMORY"}}
           ELSE {})
        \cup (IF Instances = {}
                THEN {[h |-> INVALID_HANDLE_VALUE, status |-> "ERROR_FILE_NOT_FOUND"]}
                ELSE IF ~canOpen
                THEN {[h |-> INVALID_HANDLE_VALUE, status |-> "ERROR_PIPE_BUSY"]}
                ELSE {})
        \cup {[h |-> NULL, status |-> "ERROR_SUCCESS"]}

\* the handle table after the OS returned r for a create (kind "server") or open (kind "client")
Acquire(r, kind) ==
    IF r.h \in HandleIds THEN [kernel EXCEPT ![r.h] = kind] ELSE kernel

(* ----------------------- create_logic / open_logic -------------------- *)
\* create_logic testing only the handle, not GetLastError
create_failed_handle_only(r) == r.h = NULL

\* the guard of create_logic, line 96
create_failed(r) == r.h = NULL \/ r.status # "ERROR_SUCCESS"

\* open_logic testing only the handle, not GetLastError
open_failed_handle_only(r) == r.h = NULL

\* the guard of open_logic, line 106
open_failed(r) == r.h = NULL \/ r.status # "ERROR_SUCCESS"

\* create_logic has no return statement: when it does not throw, the bool it
\* returns is indeterminate.
create_logic_returns == BOOLEAN

RuntimeError(what, r) == [kind |-> "runtime_error", what |-> what, code |-> r.status]
InvalidArgument(why) == [kind |-> "invalid_argument", what |-> why, code |-> "ERROR_SUCCESS"]

(* ----------------------------- constructors --------------------------- *)
\* named_pipe(create_only_t, ...)
CreateOnly(p) ==
    /\ pc[p] = "start"
    /\ \E a \in CreateInputs, is_unique \in BOOLEAN :
         LET len == a[1]
             max_instances == a[2]
             v == validate_create_param(len, max_instances)
         IN
         IF v # "ok"
           THEN /\ pc' = [pc EXCEPT ![p] = "failed"]
                /\ ctor' = [ctor EXCEPT ![p] = [mode |-> "CreateOnly", len |-> len, max_instances |-> max_instances, is_unique |-> is_unique]]
                /\ thrown' = [thrown EXCEPT ![p] = InvalidArgument(v)]
                /\ UNCHANGED <<handle, native, kernel>>
           ELSE \E r \in CreateNamedPipeW(max_instances, is_unique) :
                /\ ctor' = [ctor EXCEPT ![p] = [mode |-> "CreateOnly", len |-> len, max_instances |-> max_instances, is_unique |-> is_unique]]
                /\ handle' = [handle EXCEPT ![p] = r.h]
                /\ native' = [native EXCEPT ![p].create = [called |-> TRUE, h |-> r.h, status |-> r.status]]
                /\ kernel' = Acquire(r, "server")
                /\ IF create_failed(r)
                     THEN /\ pc' = [pc EXCEPT ![p] = "failed"]
                          /\ thrown' = [thrown EXCEPT ![p] = RuntimeError("create", r)]
                     ELSE /\ pc' = [pc EXCEPT ![p] = "done"]
                          /\ UNCHANGED thrown
    /\ UNCHANGED <<teardown, ioVars, nameVars>>

\* named_pipe(create_or_open_t, ...): validation and the call of create_logic
CreateOrOpen_create(p) ==
    /\ pc[p] = "start"
    /\ \E a \in CreateInputs, is_unique \in BOOLEAN :
         LET len == a[1]
             max_instances == a[2]
             v == validate_create_param(len, max_instances)
         IN
         IF v # "ok"
           THEN /\ pc' = [pc EXCEPT ![p] = "failed"]
                /\ ctor' = [ctor EXCEPT ![p] = [mode |-> "CreateOrOpen", len |-> len, max_instances |-> max_instances, is_unique |-> is_unique]]
                /\ thrown' = [thrown EXCEPT ![p] = InvalidArgument(v)]
                /\ UNCHANGED <<handle, native, kernel>>
           ELSE \E r \in CreateNamedPipeW(max_instances, is_unique) :
                /\ ctor' = [ctor EXCEPT ![p] = [mode |-> "CreateOrOpen", len |-> len, max_instances |-> max_instances, is_unique |-> is_unique]]
                /\ handle' = [handle EXCEPT ![p] = r.h]
                /\ native' = [native EXCEPT ![p].create = [called |-> TRUE, h |-> r.h, status |-> r.status]]
                /\ kernel' = Acquire(r, "server")
                /\ IF create_failed(r)
                     THEN /\ pc' = [pc EXCEPT ![p] = "failed"]
                          /\ thrown' = [thrown EXCEPT ![p] = RuntimeError("create", r)]
                     ELSE /\ \E ret \in create_logic_returns :
                               pc' = [pc EXCEPT ![p] = IF ret THEN "done" ELSE "open"]
                          /\ UNCHANGED thrown
    /\ UNCHANGED <<teardown, ioVars, nameVars>>

\* named_pipe(create_or_open_t, ...): the call of open_logic, line 125
CreateOrOpen_open(p) ==
    /\ pc[p] = "open"
    /\ \E r \in CreateFileW :
         /\ handle' = [handle EXCEPT ![p] = r.h]
         /\ native' = [native EXCEPT ![p].open = [called |-> TRUE, h |-> r.h, status |-> r.status]]
         /\ kernel' = Acquire(r, "client")
         /\ IF open_failed(r)
              THEN /\ pc' = [pc EXCEPT ![p] = "failed"]
                   /\ thrown' = [thrown EXCEPT ![p] = RuntimeError("open", r)]
              ELSE /\ pc' = [pc EXCEPT ![p] = "done"]
                   /\ UNCHANGED thrown
    /\ UNCHANGED <<ctor, teardown, ioVars, nameVars>>

\* named_pipe(open_only_t, ...)
OpenOnly(p) ==
    /\ pc[p] = "start"
    /\ \E len \in NameLens :
         LET v == validate_open_param(len) IN
         /\ ctor' = [ctor EXCEPT ![p] = [mode |-> "OpenOnly", len |-> len, max_instances |-> 0, is_unique |-> FALSE]]
         /\ IF v # "ok"
              THEN /\ pc' = [pc EXCEPT ![p] = "failed"]
                   /\ thrown' = [thrown EXCEPT ![p] = InvalidArgument(v)]
                   /\ UNCHANGED <<handle, native, kernel>>
              ELSE \E r \in CreateFileW :
                   /\ handle' = [handle EXCEPT ![p] = r.h]
                   /\ native' = [native EXCEPT ![p].open = [called |-> TRUE, h |-> r.h, status |-> r.status]]
                   /\ kernel' = Acquire(r, "client")
                   /\ IF open_failed(r)
                        THEN /\ pc' = [pc EXCEPT ![p] = "failed"]
                             /\ thrown' = [thrown EXCEPT ![p] = RuntimeError("open", r)]
                        ELSE /\ pc' = [pc EXCEPT ![p] = "done"]
                             /\ UNCHANGED thrown
    /\ UNCHANGED <<teardown, ioVars, nameVars>>

\* a destructor that releases the handle without disconnecting first
destructor_calls_close_only(h) ==
    IF h # NULL THEN <<[fn |-> "CloseHandle", h |-> h]>> ELSE <<>>

\* the body of ~named_pipe, lines 137-140: the native calls it makes, in order
destructor_calls(h) ==
    IF h # NULL
      THEN <<[fn |-> "DisconnectNamedPipe", h |-> h], [fn |-> "CloseHandle", h |-> h]>>
      ELSE <<>>

\* the handle table after the native calls cs: CloseHandle releases an open handle
RECURSIVE Released(_, _)
Released(k, cs) ==
    IF cs = <<>> THEN k
    ELSE Released(IF Head(cs).fn = "CloseHandle" /\ Head(cs).h \in HandleIds
                    THEN [k EXCEPT ![Head(cs).h] = "closed"]
                    ELSE k,
                  Tail(cs))

\* a destructor that cancels the requests bound to its handle before releasing it
Destroy_cancelling(p) ==
    /\ pc[p] = "done"
    /\ pc' = [pc EXCEPT ![p] = "destroyed"]
    /\ teardown' = [teardown EXCEPT ![p] = teardown[p] \o destructor_calls(handle[p])]
    /\ kernel' = Released(kernel, destructor_calls(handle[p]))
    /\ request' = [s \in Slots |->
                      IF request[s].present /\ request[s].handle = handle[p]
                        THEN [request[s] EXCEPT !.valid = FALSE, !.op = "none"]
                        ELSE request[s]]
    /\ UNCHANGED <<ctor, handle, thrown, native, last, peer, inbox, avail, allocated, nameVars>>

\* ~named_pipe: runs only for an endpoint whose constructor returned
Destroy(p) ==
    /\ pc[p] = "done"
    /\ pc' = [pc EXCEPT ![p] = "destroyed"]
    /\ teardown' = [teardown EXCEPT ![p] = teardown[p] \o destructor_calls(handle[p])]
    /\ kernel' = Released(kernel, destructor_calls(handle[p]))
    /\ UNCHANGED <<ctor, handle, thrown, native, ioVars, nameVars>>

(* --------------------------- async_request ---------------------------- *)
\* async_request::async_request(HANDLE): bound to the handle, Idle
async_request(h) == [present |-> TRUE, handle |-> h, valid |-> FALSE, op |-> "none"]

\* async_request::set_handle: rebinds the request to the handle
set_handle(req, h) == [req EXCEPT !.handle = h]

\* async_request::set_valid
set_valid(req, v) == [req EXCEPT !.valid = v]

\* async_request::cancel: the operation is cancelled, the request is no longer valid
cancel(req) == [req EXCEPT !.valid = FALSE, !.op = "none"]

(* ------------------------ the OS side of the I/O ---------------------- *)
Left == IF inbox = <<>> THEN 0 ELSE Head(inbox)

RECURSIVE Sum(_)
Sum(q) == IF q = <<>> THEN 0 ELSE Head(q) + Sum(Tail(q))

\* PeekNamedPipe followed by GetLastError
PeekNamedPipe ==
    IF peer = "gone"
      THEN {[ok |-> FALSE, status |-> s] : s \in {"ERROR_BROKEN_PIPE", "ERROR_PIPE_NOT_CONNECTED"}}
      ELSE {[ok |-> TRUE, status |-> "ERROR_SUCCESS"],
            [ok |-> FALSE, status |-> "ERROR_NOT_ENOUGH_MEMORY"]}

\* ReadFileEx followed by GetLastError: a message longer than the buffer
\* reports ERROR_MORE_DATA, buffered data completes at once, an empty pipe
\* queues the read; a closed or disconnected peer is reported by
\* ERROR_BROKEN_PIPE or ERROR_PIPE_NOT_CONNECTED.
ReadFileEx(buffer_length) ==
    IF peer = "gone"
      THEN {[ok |-> FALSE, status |-> s] : s \in {"ERROR_BROKEN_PIPE", "ERROR_PIPE_NOT_CONNECTED"}}
      ELSE (IF inbox # <<>> /\ Head(inbox) > buffer_length
              THEN {[ok |-> FALSE, status |-> "ERROR_MORE_DATA"]}
              ELSE IF inbox # <<>>
              THEN {[ok |-> TRUE, status |-> "ERROR_SUCCESS"]}
              ELSE {[ok |-> TRUE, status |-> "ERROR_SUCCESS"],
                    [ok |-> FALSE, status |-> "ERROR_IO_PENDING"]})
           \cup {[ok |-> FALSE, status |-> "ERROR_NOT_ENOUGH_MEMORY"]}

\* the read buffer after ReadFileEx returned r
AfterRead(r, buffer_length) ==
    IF r.status = "ERROR_MORE_DATA" THEN <<Head(inbox) - buffer_length>> \o Tail(inbox)
    ELSE IF r.ok /\ r.status = "ERROR_SUCCESS" /\ inbox # <<>> THEN Tail(inbox)
    ELSE inbox

\* WriteFileEx followed by GetLastError: writing to a pipe whose peer is gone
\* reports ERROR_NO_DATA, ERROR_BROKEN_PIPE or ERROR_PIPE_NOT_CONNECTED.
WriteFileEx(buffer_length) ==
    IF peer = "gone"
      THEN {[ok |-> FALSE, status |-> s] :
               s \in {"ERROR_NO_DATA", "ERROR_BROKEN_PIPE", "ERROR_PIPE_NOT_CONNECTED"}}
      ELSE {[ok |-> TRUE, status |-> "ERROR_SUCCESS"],
            [ok |-> FALSE, status |-> "ERROR_IO_PENDING"],
            [ok |-> FALSE, status |-> "ERROR_NOT_ENOUGH_MEMORY"]}

(* ------------------------------ os::error ----------------------------- *)
os_error == {"Success", "MoreData", "Disconnected", "Error"}

\* available and total_available have no return statement after
\* "avail = bytes": the os::error they return there is indeterminate.
available_returns == os_error

\* the switch of available, lines 147-152
available_error(status) ==
    IF status = "ERROR_BROKEN_PIPE" THEN "Disconnected" ELSE "Error"

\* the switch of total_available, lines 161-166
total_available_error(status) ==
    IF status = "ERROR_BROKEN_PIPE" THEN "Disconnected" ELSE "Error"

\* read treating ERROR_IO_PENDING like any other failure
read_result_pending_is_error(r) ==
    IF ~r.ok \/ r.status # "ERROR_SUCCESS"
      THEN IF r.status = "ERROR_MORE_DATA"
             THEN [ret |-> "MoreData", cancel |-> FALSE, mark |-> FALSE]
           ELSE IF r.status = "ERROR_BROKEN_PIPE"
             THEN [ret |-> "Disconnected", cancel |-> FALSE, mark |-> FALSE]
           ELSE [ret |-> "Error", cancel |-> TRUE, mark |-> FALSE]
      ELSE [ret |-> "Success", cancel |-> FALSE, mark |-> TRUE]

\* read reaching set_valid(true) before it returns Disconnected
read_result_disconnected_marks(r) ==
    IF ~r.ok \/ r.status # "ERROR_SUCCESS"
      THEN IF r.status = "ERROR_MORE_DATA"
             THEN [ret |-> "MoreData", cancel |-> FALSE, mark |-> FALSE]
           ELSE IF r.status = "ERROR_BROKEN_PIPE"
             THEN [ret |-> "Disconnected", cancel |-> FALSE, mark |-> TRUE]
           ELSE IF r.status # "ERROR_IO_PENDING"
             THEN [ret |-> "Error", cancel |-> TRUE, mark |-> FALSE]
           ELSE [ret |-> "Success", cancel |-> FALSE, mark |-> TRUE]
      ELSE [ret |-> "Success", cancel |-> FALSE, mark |-> TRUE]

\* read cancelling the request before it returns MoreData
read_result_more_data_cancels(r) ==
    IF ~r.ok \/ r.status # "ERROR_SUCCESS"
      THEN IF r.status = "ERROR_MORE_DATA"
             THEN [ret |-> "MoreData", cancel |-> TRUE, mark |-> FALSE]
           ELSE IF r.status = "ERROR_BROKEN_PIPE"
             THEN [ret |-> "Disconnected", cancel |-> FALSE, mark |-> FALSE]
           ELSE IF r.status # "ERROR_IO_PENDING"
             THEN [ret |-> "Error", cancel |-> TRUE, mark |-> FALSE]
           ELSE [ret |-> "Success", cancel |-> FALSE, mark |-> TRUE]
      ELSE [ret |-> "Success", cancel |-> FALSE, mark |-> TRUE]

\* read returning Success for a queued read without set_valid(true)
read_result_pending_unmarked(r) ==
    IF ~r.ok \/ r.status # "ERROR_SUCCESS"
      THEN IF r.status = "ERROR_MORE_DATA"
             THEN [ret |-> "MoreData", cancel |-> FALSE, mark |-> FALSE]
           ELSE IF r.status = "ERROR_BROKEN_PIPE"
             THEN [ret |-> "Disconnected", cancel |-> FALSE, mark |-> FALSE]
           ELSE IF r.status # "ERROR_IO_PENDING"
             THEN [ret |-> "Error", cancel |-> TRUE, mark |-> FALSE]
           ELSE [ret |-> "Success", cancel |-> FALSE, mark |-> FALSE]
      ELSE [ret |-> "Success", cancel |-> FALSE, mark |-> TRUE]

\* named_pipe::read, lines 178-191: what the call returns, whether it calls
\* request->cancel() and whether it reaches request->set_valid(true)
read_result(r) ==
    IF ~r.ok \/ r.status # "ERROR_SUCCESS"
      THEN IF r.status = "ERROR_MORE_DATA"
             THEN [ret |-> "MoreData", cancel |-> FALSE, mark |-> FALSE]
           ELSE IF r.status = "ERROR_BROKEN_PIPE"
             THEN [ret |-> "Disconnected", cancel |-> FALSE, mark |-> FALSE]
           ELSE IF r.status # "ERROR_IO_PENDING"
             THEN [ret |-> "Error", cancel |-> TRUE, mark |-> FALSE]
           ELSE [ret |-> "Success", cancel |-> FALSE, mark |-> TRUE]
      ELSE [ret |-> "Success", cancel |-> FALSE, mark |-> TRUE]

\* write returning Error without request->cancel()
write_result_no_cancel(r) ==
    IF ~r.ok \/ r.status # "ERROR_SUCCESS"
      THEN IF r.status = "ERROR_MORE_DATA"
             THEN [ret |-> "MoreData", cancel |-> FALSE, mark |-> FALSE]
           ELSE IF r.status = "ERROR_BROKEN_PIPE"
             THEN [ret |-> "Disconnected", cancel |-> FALSE, mark |-> FALSE]
           ELSE IF r.status # "ERROR_IO_PENDING"
             THEN [ret |-> "Error", cancel |-> FALSE, mark |-> FALSE]
           ELSE [ret |-> "Success", cancel |-> FALSE, mark |-> TRUE]
      ELSE [ret |-> "Success", cancel |-> FALSE, mark |-> TRUE]

\* named_pipe::write, lines 201-214
write_result(r) ==
    IF ~r.ok \/ r.status # "ERROR_SUCCESS"
      THEN IF r.status = "ERROR_MORE_DATA"
             THEN [ret |-> "MoreData", cancel |-> FALSE, mark |-> FALSE]
           ELSE IF r.status = "ERROR_BROKEN_PIPE"
             THEN [ret |-> "Disconnected", cancel |-> FALSE, mark |-> FALSE]
           ELSE IF r.status # "ERROR_IO_PENDING"
             THEN [ret |-> "Error", cancel |-> TRUE, mark |-> FALSE]
           ELSE [ret |-> "Success", cancel |-> FALSE, mark |-> TRUE]
      ELSE [ret |-> "Success", cancel |-> FALSE, mark |-> TRUE]

\* read allocating a request on every call
read_creates_always(s) == TRUE

\* the test of line 172: read creates the request when the caller's pointer is empty
read_creates(s) == ~request[s].present

\* write allocating a request on every call
write_creates_always(s) == TRUE

\* the test of line 195: write creates the request when the caller's pointer is empty
write_creates(s) == ~request[s].present

\* the request after lines 172-175 (195-198): created when asked, then rebound
Bound(s, p, creates) ==
    set_handle(IF creates THEN async_request(handle[p]) ELSE request[s], handle[p])

\* the OS queued the operation: it completed at once or is pending
Queued(r) == (r.ok /\ r.status = "ERROR_SUCCESS") \/ r.status = "ERROR_IO_PENDING"

\* the request after ReadFileEx / WriteFileEx returned r: a queued operation
\* is outstanding on its completion descriptor; queueing on a descriptor
\* that still has one outstanding clobbers it
Submit(req, r, dir) ==
    IF Queued(r)
      THEN [req EXCEPT !.op = IF @ = "none" THEN dir ELSE "clobbered"]
      ELSE req

\* a call that writes its request through every pointer of the caller
Stored_everywhere(s, req) == [t \in Slots |-> req]

\* the caller's pointers after the call: only the one passed by reference is written
Stored(s, req) == [request EXCEPT ![s] = req]

\* the request when the call returns
Finished(req, o) ==
    IF o.cancel THEN cancel(req)
    ELSE IF o.mark THEN set_valid(req, TRUE)
    ELSE req

(* ------------------------------ I/O calls ----------------------------- *)
\* named_pipe::available
available(p) ==
    /\ pc[p] = "done"
    /\ \E r \in PeekNamedPipe :
         IF ~r.ok \/ r.status # "ERROR_SUCCESS"
           THEN /\ last' = [NoLast EXCEPT !.op = "available", !.ok = r.ok, !.status = r.status,
                                          !.ret = available_error(r.status),
                                          !.gone = (peer = "gone"), !.left = Left, !.total = Sum(inbox)]
                /\ UNCHANGED avail
           ELSE /\ avail' = Left
                /\ \E ret \in available_returns :
                     last' = [NoLast EXCEPT !.op = "available", !.ok = r.ok, !.status = r.status,
                                            !.ret = ret,
                                            !.gone = (peer = "gone"), !.left = Left, !.total = Sum(inbox)]
    /\ UNCHANGED <<lifeVars, nameVars, request, peer, inbox, allocated>>

\* named_pipe::total_available
total_available(p) ==
    /\ pc[p] = "done"
    /\ \E r \in PeekNamedPipe :
         IF ~r.ok \/ r.status # "ERROR_SUCCESS"
           THEN /\ last' = [NoLast EXCEPT !.op = "total_available", !.ok = r.ok, !.status = r.status,
                                          !.ret = total_available_error(r.status),
                                          !.gone = (peer = "gone"), !.left = Left, !.total = Sum(inbox)]
                /\ UNCHANGED avail
           ELSE /\ avail' = Sum(inbox)
                /\ \E ret \in available_returns :
                     last' = [NoLast EXCEPT !.op = "total_available", !.ok = r.ok, !.status = r.status,
                                            !.ret = ret,
                                            !.gone = (peer = "gone"), !.left = Left, !.total = Sum(inbox)]
    /\ UNCHANGED <<lifeVars, nameVars, request, peer, inbox, allocated>>

\* named_pipe::read
read(p, s, buffer_length) ==
    /\ pc[p] = "done"
    /\ \E r \in ReadFileEx(buffer_length) :
         LET o == read_result(r)
             req == Finished(Submit(Bound(s, p, read_creates(s)), r, "read"), o)
         IN  /\ request' = Stored(s, req)
             /\ allocated' = allocated + (IF read_creates(s) THEN 1 ELSE 0)
             /\ inbox' = AfterRead(r, buffer_length)
             /\ last' = [NoLast EXCEPT !.op = "read", !.slot = s, !.ok = r.ok, !.status = r.status,
                                       !.ret = o.ret, !.cancelled = o.cancel,
                                       !.fresh = read_creates(s), !.valid = req.valid,
                                       !.wasValid = request[s].valid,
                                       !.gone = (peer = "gone"), !.left = Left, !.total = Sum(inbox)]
    /\ UNCHANGED <<lifeVars, nameVars, peer, avail>>

\* named_pipe::write
write(p, s, buffer_length) ==
    /\ pc[p] = "done"
    /\ \E r \in WriteFileEx(buffer_length) :
         LET o == write_result(r)
             req == Finished(Submit(Bound(s, p, write_creates(s)), r, "write"), o)
         IN  /\ request' = Stored(s, req)
             /\ allocated' = allocated + (IF write_creates(s) THEN 1 ELSE 0)
             /\ last' = [NoLast EXCEPT !.op = "write", !.slot = s, !.ok = r.ok, !.status = r.status,
                                       !.ret = o.ret, !.cancelled = o.cancel,
                                       !.fresh = write_creates(s), !.valid = req.valid,
                                       !.wasValid = request[s].valid,
                                       !.gone = (peer = "gone"), !.left = Left, !.total = Sum(inbox)]
    /\ UNCHANGED <<lifeVars, nameVars, peer, inbox, avail>>

(* ------------------------- caller and peer steps ---------------------- *)
\* the caller waits on or polls a submitted request until it is resolved
Resolve(s) ==
    /\ request[s].present /\ request[s].valid
    /\ request' = [request EXCEPT ![s] = [set_valid(request[s], FALSE) EXCEPT !.op = "none"]]
    /\ UNCHANGED <<lifeVars, nameVars, last, peer, inbox, avail, allocated>>

\* the peer writes one message of n bytes
PeerSend(n) ==
    /\ peer = "connected"
    /\ Len(inbox) < MaxMsgs
    /\ inbox' = Append(inbox, n)
    /\ UNCHANGED <<lifeVars, nameVars, request, last, peer, avail, allocated>>

\* the peer closes its end, or the instance is disconnected; unread data is discarded
PeerGone ==
    /\ peer = "connected"
    /\ peer' = "gone"
    /\ inbox' = <<>>
    /\ UNCHANGED <<lifeVars, nameVars, request, last, avail, allocated>>

Init ==
    /\ pc = [p \in Procs |-> "start"]
    /\ ctor = [p \in Procs |-> NoCtor]
    /\ handle = [p \in Procs |-> NULL]
    /\ thrown = [p \in Procs |-> NoThrow]
    /\ native = [p \in Procs |-> [create |-> NoCall, open |-> NoCall]]
    /\ kernel = [h \in HandleIds |-> "unused"]
    /\ teardown = [p \in Procs |-> <<>>]
    /\ request = [s \in Slots |-> NoRequest]
    /\ last = NoLast
    /\ peer = "connected"
    /\ inbox = <<>>
    /\ avail = 0
    /\ allocated = 0
    /\ name = <<"a">>
    /\ normalized = <<>>

Next ==
    \E p \in Procs :
        \/ CreateOnly(p)
        \/ CreateOrOpen_create(p)
        \/ CreateOrOpen_open(p)
        \/ OpenOnly(p)
        \/ Destroy(p)

Spec == Init /\ [][Next]_vars

\* one endpoint, constructed by named_pipe(create_only_t, ...) and connected to a peer
InitIO ==
    /\ pc = [p \in Procs |-> IF p = 1 THEN "done" ELSE "start"]
    /\ ctor = [p \in Procs |-> IF p = 1 THEN [mode |-> "CreateOnly", len |-> MAX_PATH_MINUS_PREFIX - 1, max_instances |-> 1, is_unique |-> FALSE]
                                        ELSE NoCtor]
    /\ handle = [p \in Procs |-> IF p = 1 THEN 1 ELSE NULL]
    /\ thrown = [p \in Procs |-> NoThrow]
    /\ native = [p \in Procs |-> IF p = 1
                    THEN [create |-> [called |-> TRUE, h |-> 1, status |-> "ERROR_SUCCESS"], open |-> NoCall]
                    ELSE [create |-> NoCall, open |-> NoCall]]
    /\ kernel = [h \in HandleIds |-> IF h = 1 THEN "server" ELSE "unused"]
    /\ teardown = [p \in Procs |-> <<>>]
    /\ request = [s \in Slots |-> NoRequest]
    /\ last = NoLast
    /\ peer = "connected"
    /\ inbox = <<>>
    /\ avail = 0
    /\ allocated = 0
    /\ name = <<"a">>
    /\ normalized = <<>>

NextIO ==
    \/ \E p \in Procs : available(p)
    \/ \E p \in Procs : total_available(p)
    \/ \E p \in Procs, s \in Slots, n \in BufLens : read(p, s, n)
    \/ \E p \in Procs, s \in Slots, n \in BufLens : write(p, s, n)
    \/ \E s \in Slots : Resolve(s)
    \/ \E n \in 1..MaxMsgLen : PeerSend(n)
    \/ PeerGone
    \/ \E p \in Procs : Destroy(p)

SpecIO == InitIO /\ [][NextIO]_vars

\* the caller checks is_valid() first and passes only requests that are not valid
checked_read(p, s, buffer_length) == ~request[s].valid /\ read(p, s, buffer_length)
checked_write(p, s, buffer_length) == ~request[s].valid /\ write(p, s, buffer_length)

NextChecked ==
    \/ \E p \in Procs : available(p)
    \/ \E p \in Procs : total_available(p)
    \/ \E p \in Procs, s \in Slots, n \in BufLens : checked_read(p, s, n)
    \/ \E p \in Procs, s \in Slots, n \in BufLens : checked_write(p, s, n)
    \/ \E s \in Slots : Resolve(s)
    \/ \E n \in 1..MaxMsgLen : PeerSend(n)
    \/ PeerGone
    \/ \E p \in Procs : Destroy(p)

SpecChecked == InitIO /\ [][NextChecked]_vars

\* name normalization on its own: every valid name up to MaxNameLen characters
InitNames ==
    /\ pc = [p \in Procs |-> "start"]
    /\ ctor = [p \in Procs |-> NoCtor]
    /\ handle = [p \in Procs |-> NULL]
    /\ thrown = [p \in Procs |-> NoThrow]
    /\ native = [p \in Procs |-> [create |-> NoCall, open |-> NoCall]]
    /\ kernel = [h \in HandleIds |-> "unused"]
    /\ teardown = [p \in Procs |-> <<>>]
    /\ request = [s \in Slots |-> NoRequest]
    /\ last = NoLast
    /\ peer = "connected"
    /\ inbox = <<>>
    /\ avail = 0
    /\ allocated = 0
    /\ name \in Names
    /\ normalized = <<>>

NextNames == Normalize

SpecNames == InitNames /\ [][NextNames]_vars

(* ------------------------------ properties ---------------------------- *)
Settled(p) == pc[p] \in {"done", "failed"}
Created(p) == native[p].create.called /\ native[p].create.h \in HandleIds
               /\ native[p].create.status = "ERROR_SUCCESS"
\* the native create refused the name because instances of it exist
Refused(p) == native[p].create.called /\ native[p].create.h = INVALID_HANDLE_VALUE
               /\ native[p].create.status \in {"ERROR_ACCESS_DENIED", "ERROR_PIPE_BUSY"}
HoldsOpened(p) == /\ native[p].open.called
                  /\ handle[p] = native[p].open.h
                  /\ handle[p] \in HandleIds
                  /\ kernel[handle[p]] = "client"
Submitted == last.op \in {"read", "write"}
SubmitFailed == ~last.ok \/ last.status # "ERROR_SUCCESS"
Peeked == last.op \in {"available", "total_available"}

\* C1: a CreateOrOpen construction whose native create is refused because an
\* instance of the name exists calls the open primitive and ends constructed,
\* holding the handle opened on the existing instance, not failed with a
\* creation error.
C1_FallsBackToOpen ==
    \A p \in Procs :
        (ctor[p].mode = "CreateOrOpen" /\ Refused(p))
            => (pc[p] # "failed" /\ thrown[p].what # "create" /\ HoldsOpened(p))

\* C2: when two processes construct with CreateOrOpen on the same name with
\* the same inputs and both constructions have ended while both endpoints
\* are alive, neither has failed: one created the instance and a process
\* whose create was refused holds a handle opened on the existing instance.
C2_BothRacersSucceed ==
    \A p, q \in Procs :
        (/\ p # q
         /\ ctor[p].mode = "CreateOrOpen" /\ ctor[q] = ctor[p]
         /\ Settled(p) /\ Settled(q)
         /\ Created(p) \/ Refused(p)
         /\ Created(q) \/ Refused(q)
         /\ Created(p) \/ Created(q))
            => (/\ pc[p] = "done" /\ pc[q] = "done"
                /\ Refused(p) => HoldsOpened(p)
                /\ Refused(q) => HoldsOpened(q))

\* C3: a CreateOnly construction never calls the open primitive, and when
\* the native create yields a null handle or a non-success status it fails
\* with a runtime error carrying that native status.
C3_CreateOnlyNeverOpens ==
    \A p \in Procs :
        ctor[p].mode = "CreateOnly" =>
            /\ ~native[p].open.called
            /\ (native[p].create.called
                  /\ (native[p].create.h = NULL \/ native[p].create.status # "ERROR_SUCCESS"))
                 => (/\ pc[p] = "failed"
                     /\ thrown[p] = [kind |-> "runtime_error", what |-> "create",
                                     code |-> native[p].create.status])

\* C3 witness: a CreateOnly construction refused because the name is held by a unique instance
C3_Witness ==
    \E p \in Procs :
        /\ ctor[p].mode = "CreateOnly" /\ ctor[p].is_unique
        /\ native[p].create.status = "ERROR_ACCESS_DENIED"
        /\ pc[p] = "failed"

\* C4: after a failed construction every handle the OS returned during the
\* attempt has been released.
C4_FailedHoldsNoHandle ==
    \A p \in Procs :
        pc[p] = "failed" =>
            \A h \in {native[p].create.h, native[p].open.h} \cap HandleIds : kernel[h] = "closed"

\* C5: a read or write submission the OS accepts (immediate success or
\* ERROR_IO_PENDING) returns Success with the request marked valid.
C5_AcceptedIsSuccess ==
    (Submitted /\ ((last.ok /\ last.status = "ERROR_SUCCESS") \/ last.status = "ERROR_IO_PENDING"))
        => (last.ret = "Success" /\ last.valid)

\* C5 witness: a submission queued with ERROR_IO_PENDING has returned
C5_Witness ==
    /\ last.op = "read" /\ last.status = "ERROR_IO_PENDING"
    /\ last.ret = "Success" /\ request[last.slot].valid

\* C6: a read that returns MoreData leaves the request marked valid.
C6_MoreDataMarksValid ==
    (last.op = "read" /\ last.ret = "MoreData") => last.valid

\* C7: a read or write that returns Disconnected leaves the validity flag
\* false, whatever request was passed to it.
C7_DisconnectedNotValid ==
    (Submitted /\ last.ret = "Disconnected") => ~last.valid

\* C7 amended: a read or write that returns Disconnected leaves the validity
\* flag false for a request the call created and for a reused request whose
\* flag was false when it was passed in.
C7_DisconnectedDoesNotMark ==
    (Submitted /\ last.ret = "Disconnected" /\ ~last.wasValid) => ~last.valid

\* C7 witness: a reused, resolved request passed to a call that returned Disconnected
C7_Witness ==
    /\ Submitted /\ last.ret = "Disconnected"
    /\ ~last.fresh /\ ~last.wasValid /\ ~request[last.slot].valid

\* C8: a read or write submission that fails with a native status other than
\* more-data, broken-pipe or pending cancels the request, returns Error and
\* leaves the validity flag false.
C8_OtherFailureCancels ==
    (Submitted /\ SubmitFailed
       /\ last.status \notin {"ERROR_MORE_DATA", "ERROR_BROKEN_PIPE", "ERROR_IO_PENDING"})
        => (last.cancelled /\ last.ret = "Error" /\ ~last.valid)

\* C8 witness: a request that was still valid was passed to a write that failed generically
C8_Witness ==
    /\ last.op = "write" /\ last.status = "ERROR_NOT_ENOUGH_MEMORY"
    /\ last.wasValid /\ last.cancelled /\ last.ret = "Error"

\* C9: every available, total_available, read and write call made after the
\* peer is gone returns Disconnected.
C9_GoneIsDisconnected ==
    (last.op # "none" /\ last.gone) => last.ret = "Disconnected"

\* C10: when the native peek succeeds, available returns Success with the
\* bytes left in the current message and total_available returns Success
\* with the bytes buffered across all messages (0 for an empty buffer).
C10_PeekReportsCount ==
    (Peeked /\ last.ok /\ last.status = "ERROR_SUCCESS")
        => /\ last.ret = "Success"
           /\ last.op = "available" => avail = last.left
           /\ last.op = "total_available" => avail = last.total

NameErrors == {"name_empty", "name_too_long"}
CountErrors == {"max_instances_zero", "max_instances_too_big"}
Closes(p, h) == {i \in 1..Len(teardown[p]) : teardown[p][i] = [fn |-> "CloseHandle", h |-> h]}

\* C11: the destructor of a constructed endpoint whose handle is non-null
\* calls DisconnectNamedPipe and then CloseHandle on that handle, each once;
\* nothing else is released, no handle is released twice, and no handle is
\* released without the disconnect before it.
C11_DisconnectThenClose ==
    /\ \A p \in Procs :
         /\ pc[p] # "destroyed" => teardown[p] = <<>>
         /\ (pc[p] = "destroyed" /\ handle[p] # NULL)
              => teardown[p] = <<[fn |-> "DisconnectNamedPipe", h |-> handle[p]],
                                 [fn |-> "CloseHandle", h |-> handle[p]]>>
    /\ \A h \in HandleIds :
         /\ Cardinality({p \in Procs : Closes(p, h) # {}}) <= 1
         /\ \A p \in Procs : Cardinality(Closes(p, h)) <= 1
         /\ \A p \in Procs : \A i \in Closes(p, h) :
              \E j \in 1..(i - 1) : teardown[p][j] = [fn |-> "DisconnectNamedPipe", h |-> h]

\* C11 witness: an endpoint has been destroyed and its handle released
C11_Witness ==
    \E p \in Procs :
        /\ pc[p] = "destroyed" /\ handle[p] \in HandleIds
        /\ kernel[handle[p]] = "closed" /\ Len(teardown[p]) = 2

\* C12: in CreateOnly and CreateOrOpen an empty or oversized name, a zero
\* instance count or one above PIPE_UNLIMITED_INSTANCES fails the
\* construction with an argument error and neither native create nor open
\* has been called; in OpenOnly the same holds for the name, and no
\* instance-count error is raised.
C12_ValidationBeforeOsCall ==
    \A p \in Procs :
        /\ (/\ ctor[p].mode \in {"CreateOnly", "CreateOrOpen"}
            /\ \/ ctor[p].len = 0
               \/ ctor[p].len > MAX_PATH - 9
               \/ ctor[p].max_instances = 0
               \/ ctor[p].max_instances > PIPE_UNLIMITED_INSTANCES)
             => (/\ pc[p] = "failed" /\ thrown[p].kind = "invalid_argument"
                 /\ ~native[p].create.called /\ ~native[p].open.called)
        /\ (ctor[p].mode = "OpenOnly" /\ (ctor[p].len = 0 \/ ctor[p].len > MAX_PATH - 9))
             => (/\ pc[p] = "failed" /\ thrown[p].kind = "invalid_argument"
                 /\ ~native[p].create.called /\ ~native[p].open.called)
        /\ ctor[p].mode = "OpenOnly" => thrown[p].what \notin CountErrors

\* C12 witness: a CreateOrOpen construction with a valid name and a zero instance count has failed
C12_Witness ==
    \E p \in Procs :
        /\ ctor[p].mode = "CreateOrOpen" /\ ctor[p].max_instances = 0
        /\ ctor[p].len = MAX_PATH_MINUS_PREFIX - 1
        /\ pc[p] = "failed" /\ thrown[p].what = "max_instances_zero"

\* C13: a name passes validation exactly when its length is between 1 and
\* MAX_PATH - 9 inclusive.
C13_NameLengthRange ==
    \A p \in Procs :
        ctor[p].mode # "none" =>
            ((thrown[p].what \notin NameErrors) <=> (1 <= ctor[p].len /\ ctor[p].len <= MAX_PATH - 9))

\* C14: normalizing an already normalized name yields the same string.
C14_Idempotent ==
    Len(normalized) >= 2 => normalized[2] = normalized[1]

\* C14 amended: a second normalization prepends the prefix again, so its
\* result is longer than and different from the first; only the backslash
\* replacement is idempotent: the part of the first result after the prefix
\* has no backslash and is the end of the second result unchanged.
C14_PrefixedAgain ==
    Len(normalized) >= 2 =>
        LET first == normalized[1]
            second == normalized[2]
            rest == SubSeq(first, Len(Prefix) + 1, Len(first))
        IN  /\ second # first
            /\ Len(second) = Len(first) + Len(Prefix)
            /\ Len(rest) = Len(name)
            /\ \A i \in 1..Len(rest) : rest[i] # "\\"
            /\ SubSeq(second, Len(second) - Len(rest) + 1, Len(second)) = rest
            /\ SubSeq(second, 1, Len(Prefix)) = Prefix

\* C14 witness: a name with a backslash has been normalized twice
C14_Witness ==
    /\ Len(normalized) = 2
    /\ \E i \in 1..Len(name) : name[i] = "\\"

Live == {s \in Slots : request[s].present}
Outstanding(dir) == {s \in Slots : request[s].op = dir}
Alive(p) == pc[p] = "done"

\* C15: read and write create a request only when the caller's pointer is
\* empty, so over any number of submit-resolve-reuse cycles the number of
\* requests created equals the number of live requests.
C15_NoGrowthOnReuse ==
    allocated = Cardinality(Live)

\* C15 witness: a resolved request has been reused by a write that was accepted, with one request ever created
C15_Witness ==
    /\ last.op = "write" /\ ~last.fresh /\ ~last.wasValid
    /\ last.ret = "Success" /\ allocated = 1

\* C16: a read or write call changes only the request passed to it; every
\* other request keeps its validity, handle binding and outstanding
\* operation, whatever the call returns.
C16_OtherRequestsUntouched ==
    [][(/\ last'.op \in {"read", "write"}
        /\ last' # last \/ request'[last'.slot] # request[last'.slot])
          => \A t \in Slots \ {last'.slot} : request'[t] = request[t]]_vars

\* C16 witness: a read and a write are outstanding at the same time, the write submitted last
C16_Witness ==
    /\ request["r1"].valid /\ request["r1"].op = "read"
    /\ request["r2"].valid /\ request["r2"].op = "write"
    /\ last.op = "write" /\ last.slot = "r2"

\* C17: every read or write submission that fails for a reason other than
\* the pending signal, more-data and broken-pipe included, cancels the
\* request within the call.
C17_EveryFailureCancels ==
    (Submitted /\ SubmitFailed /\ last.status # "ERROR_IO_PENDING") => last.cancelled

\* C17 amended: a read or write call cancels the request exactly when the
\* submission failed with a status other than more-data, broken-pipe and
\* pending; a call that returns MoreData or Disconnected has not cancelled.
C17_OnlyOtherFailuresCancel ==
    Submitted =>
        /\ last.cancelled <=>
              (SubmitFailed /\ last.status \notin {"ERROR_MORE_DATA", "ERROR_BROKEN_PIPE", "ERROR_IO_PENDING"})
        /\ last.ret \in {"MoreData", "Disconnected"} => ~last.cancelled

\* C17 witness: a read has returned MoreData without cancelling
C17_Witness ==
    last.op = "read" /\ last.ret = "MoreData" /\ ~last.cancelled

\* C18: no request is marked valid while the handle it is bound to has been
\* released.
C18_NoValidRequestOnReleasedHandle ==
    \A s \in Slots :
        (request[s].present /\ request[s].valid /\ request[s].handle \in HandleIds)
            => kernel[request[s].handle] # "closed"

\* C18 amended: the destructor cancels nothing, it leaves every request as it was.
C18_DestructorLeavesRequests ==
    [][\A p \in Procs : (pc[p] = "done" /\ pc'[p] = "destroyed") => request' = request]_vars

\* C18 witness: the endpoint was destroyed with a read outstanding, which is still valid on the released handle
C18_Witness ==
    \E s \in Slots, p \in Procs :
        /\ pc[p] = "destroyed" /\ request[s].handle = handle[p]
        /\ request[s].valid /\ request[s].op = "read"
        /\ kernel[handle[p]] = "closed"

\* C19: while the handle field exists it is null or an open OS handle.
C19_HandleNullOrOpen ==
    \A p \in Procs :
        pc[p] # "destroyed" =>
            \/ handle[p] = NULL
            \/ handle[p] \in HandleIds /\ kernel[handle[p]] \in {"server", "client"}

\* C19 amended: from the return of create_logic or open_logic until the
\* destructor runs, the handle field is an open OS handle.
C19_ConstructedHandleOpen ==
    \A p \in Procs :
        pc[p] \in {"open", "done"} =>
            (handle[p] \in HandleIds /\ kernel[handle[p]] \in {"server", "client"})

\* C19 witness: one construction failed leaving the failure value in the field, another endpoint is constructed
C19_Witness ==
    \E p, q \in Procs :
        /\ pc[p] = "done" /\ kernel[handle[p]] = "client"
        /\ pc[q] = "failed" /\ handle[q] = INVALID_HANDLE_VALUE

\* C20: when the caller never passes a valid request, at most one read and
\* at most one write are outstanding on the endpoint.
C20_OnePerDirection ==
    /\ Cardinality(Outstanding("read")) <= 1
    /\ Cardinality(Outstanding("write")) <= 1

\* C20 amended: when the caller never passes a valid request, no completion
\* descriptor has two operations outstanding and every request with an
\* operation outstanding is marked valid; read and write themselves accept
\* a request that is valid.
C20_OnePerRequest ==
    \A s \in Slots :
        /\ request[s].op # "clobbered"
        /\ request[s].op # "none" => request[s].valid
        /\ \A p \in Procs :
             (Alive(p) /\ request[s].valid)
                => (ENABLED read(p, s, 1) /\ ENABLED write(p, s, 1))

\* C20 witness: two reads are outstanding, each on its own request
C20_Witness ==
    /\ request["r1"].op = "read" /\ request["r1"].valid
    /\ request["r2"].op = "read" /\ request["r2"].valid

====
